---- MODULE Spec2Model ----
(***************************************************************************)
(* The request handlers of the AI content generator and the persistent     *)
(* store they share: POST /api/generate, GET and DELETE /api/history,      *)
(* POST /api/auth/logout, the session functions of app/lib/auth.ts, and    *)
(* the register and login routes.  Every await of a handler that touches   *)
(* the store is one atomic step; requests interleave between their steps.  *)
(***************************************************************************)
EXTENDS Integers, Sequences, FiniteSets, TLC

\* ------------------------------------------------------------------ bounds
\* Number of HTTP requests that arrive in one behaviour.
MaxReq == 2

\* --------------------------------------------------------- program constants
SESSION_DURATION == 7 * 24 * 60 * 60 * 1000
TitleMax == 100
TakeLimit == 50

\* ------------------------------------------------------------ value universe
Reqs == 1 .. MaxReq
\* The instants the clock shows: a session made at 0 expires after the second.
Times == {0, SESSION_DURATION, SESSION_DURATION + 1}
\* generateRandomToken(): 64 characters drawn from 62.  Tokens are taken to be
\* fresh, as primary keys are: the token request r draws is one no session
\* was ever stored with.
TokenOf(r) == "t" \o ToString(r)
NoCookie == "none"
\* What request r may carry: no cookie, a token of the initial sessions, a
\* token an earlier request was given, or one no session was stored with
\* (TokenOf(r): r itself draws no token when it carries a cookie).
CookiesOf(r) == {NoCookie, "tA", "tB"} \cup {TokenOf(q) : q \in 1 .. r}
Emails == {"a@x", "c@x"}
Passwords == {"pw1", "pw2"}

NoSession == [id |-> 0, userId |-> 0, token |-> NoCookie, expiresAt |-> 0]
NoUser == [id |-> 0, email |-> "", password |-> "", attemptUsed |-> FALSE]
NoContent ==
    [id |-> 0, title |-> <<>>, content |-> <<>>, contentType |-> "",
     template |-> "", prompt |-> <<>>, userId |-> 0, createdAt |-> 0]

Min(a, b) == IF a < b THEN a ELSE b

\* ------------------------------------------------------------------- strings
\* A text is a sequence of one-character strings.
NL == "\n"
IsSpace(c) == c \in {" ", NL}

RECURSIVE SplitLines(_)
\* String.prototype.split('\n')
SplitLines(s) ==
    IF \A i \in 1 .. Len(s) : s[i] # NL
    THEN <<s>>
    ELSE LET k == CHOOSE i \in 1 .. Len(s) :
                      s[i] = NL /\ \A j \in 1 .. (i - 1) : s[j] # NL
         IN  <<SubSeq(s, 1, k - 1)>> \o SplitLines(SubSeq(s, k + 1, Len(s)))

\* line.trim() is truthy
TrimNonEmpty(line) == \E i \in 1 .. Len(line) : ~IsSpace(line[i])

RECURSIVE DropHashes(_)
DropHashes(s) == IF s # <<>> /\ s[1] = "#" THEN DropHashes(Tail(s)) ELSE s

RECURSIVE DropSpaces(_)
DropSpaces(s) == IF s # <<>> /\ IsSpace(s[1]) THEN DropSpaces(Tail(s)) ELSE s

\* line.replace(/^#+\s*/, '')
StripHeading(line) ==
    IF line # <<>> /\ line[1] = "#"
    THEN DropSpaces(DropHashes(line))
    ELSE line

\* s.substring(0, n)
Substring0(s, n) == SubSeq(s, 1, Min(Len(s), n))

GenericTitle == <<"Generated Content">>

\* lines[0]?.replace(/^#+\s*/, '').substring(0, 100) || 'Generated Content'
ExtractTitle(text) ==
    LET lines == SelectSeq(SplitLines(text), TrimNonEmpty)
        t     == IF lines = <<>> THEN <<>>
                 ELSE Substring0(StripHeading(lines[1]), TitleMax)
    IN  IF t = <<>> THEN GenericTitle ELSE t

\* ----------------------------------------------------------------- templates
\* A prompt is a sequence of segments; the segment "{p}" is placeholder p.
Templates ==
    { [id |-> "blog-how-to", name |-> "How-To Guide", contentType |-> "blog",
       prompt |-> <<"Write a comprehensive how-to guide about ", "{topic}",
                    ". Include an engaging introduction">>,
       placeholders |-> <<"topic">>],
      [id |-> "marketing-email", name |-> "Email Campaign",
       contentType |-> "marketing",
       prompt |-> <<"Write a compelling marketing email for ",
                    "{product/service}", " targeting ", "{audience}", ".">>,
       placeholders |-> <<"product/service", "audience">>] }

NoTemplate ==
    [id |-> "", name |-> "", contentType |-> "", prompt |-> <<>>,
     placeholders |-> <<>>]

\* templates.find(t => t.id === id)
getTemplateById(id) ==
    IF \E t \in Templates : t.id = id
    THEN CHOOSE t \in Templates : t.id = id
    ELSE NoTemplate

Braced(p) == "{" \o p \o "}"

\* finalPrompt.replace(`{${placeholder}}`, value): the first occurrence only;
\* the replacement pattern "$&" stands for the matched text.
ReplaceFirst(prompt, p, value) ==
    IF \A i \in 1 .. Len(prompt) : prompt[i] # Braced(p)
    THEN prompt
    ELSE LET k == CHOOSE i \in 1 .. Len(prompt) :
                      prompt[i] = Braced(p)
                      /\ \A j \in 1 .. (i - 1) : prompt[j] # Braced(p)
             v == IF value = "$&" THEN <<Braced(p)>>
                  ELSE IF value = "" THEN <<>> ELSE <<value>>
         IN  SubSeq(prompt, 1, k - 1) \o v \o SubSeq(prompt, k + 1, Len(prompt))

\* inputs[placeholder] || ''   (inputs is an object here)
InputValue(inputs, p) == IF p \in DOMAIN inputs THEN inputs[p] ELSE ""

RECURSIVE Substitute(_, _, _)
\* template.placeholders.forEach(...)
Substitute(prompt, placeholders, inputs) ==
    IF placeholders = <<>> THEN prompt
    ELSE Substitute(ReplaceFirst(prompt, Head(placeholders),
                                 InputValue(inputs, Head(placeholders))),
                    Tail(placeholders), inputs)

\* --------------------------------------------------------------------- state
VARIABLES
    users,      \* User table: set of rows
    sessions,   \* Session table: set of rows
    contents,   \* GeneratedContent table: set of rows
    now,        \* wall clock, in ms
    req         \* the HTTP requests: inputs, position in the handler, locals

vars == <<users, sessions, contents, now, req>>

Kinds == {"generate", "historyGet", "historyDelete", "logout", "register", "login"}
Protected == {"generate", "historyGet", "historyDelete"}

\* A request that has not arrived.  Its inputs (kind, cookie, target: the id
\* parameter, filter: the type parameter, email and pw: the credentials), its
\* response (status, saved, list, setCookie) and the record of what it did (auth: what
\* the session lookup found; uid: the user it acted for; calls: provider
\* invocations; out: what the provider answered, or "threw" when resolving
\* the prompt threw) stay once the request is
\* done; the handler's locals are dropped with its frame.
IdleReq ==
    [kind |-> "idle", pc |-> "idle", cookie |-> NoCookie, status |-> 0,
     auth |-> "pending", uid |-> 0, calls |-> 0, out |-> "none", saved |-> 0,
     list |-> <<>>, setCookie |-> "keep", sess |-> NoSession, user |-> NoUser,
     prompt |-> <<>>, template |-> "", ctype |-> "", text |-> <<>>,
     title |-> <<>>, target |-> 0, filter |-> "", email |-> "", pw |-> ""]

\* ------------------------------------------------------------- store queries
\* prisma.session.findUnique({ where: { token }, include: { user: true } })
FindSessionByToken(token) ==
    IF \E s \in sessions : s.token = token
    THEN CHOOSE s \in sessions : s.token = token
    ELSE NoSession

FindUserById(id) ==
    IF \E u \in users : u.id = id
    THEN CHOOSE u \in users : u.id = id
    ELSE NoUser

\* prisma.generatedContent.findUnique({ where: { id } })
FindContentById(id) ==
    IF \E c \in contents : c.id = id
    THEN CHOOSE c \in contents : c.id = id
    ELSE NoContent

\* session.expiresAt < new Date()
SessionExpired(session, t) == session.expiresAt < t

\* new Date(Date.now() + SESSION_DURATION)
ExpiresAtFrom(t) == t + SESSION_DURATION

\* Mutant of QuotaUsed: the quota test is left out.
QuotaUsed_Never(user) == FALSE

\* if (user.attemptUsed)
QuotaUsed(user) == user.attemptUsed

\* Mutant of EmptyOutput: the test of the provider's output is left out.
EmptyOutput_Never(text) == FALSE

\* if (!generatedContent)
EmptyOutput(text) == text = <<>>

\* prisma.user.update({ where: { id }, data: { attemptUsed: true } })
MarkAttemptUsed(us, id) ==
    {IF u.id = id THEN [u EXCEPT !.attemptUsed = TRUE] ELSE u : u \in us}

\* Mutant of DeleteManyByToken: the filter also asks for an expired row.
DeleteManyByToken_OnlyExpired(ss, token) ==
    {s \in ss : ~(s.token = token /\ s.expiresAt < now)}

\* Mutant of DeleteManyByToken: a token that matches no row removes every row.
DeleteManyByToken_AllOnMiss(ss, token) ==
    IF \E s \in ss : s.token = token THEN {s \in ss : s.token # token} ELSE {}

\* Mutant of DeleteManyByToken: every session of the token's user is removed.
DeleteManyByToken_OfUser(ss, token) ==
    {s \in ss : ~(\E t \in ss : t.token = token /\ t.userId = s.userId)}

\* prisma.session.deleteMany({ where: { token } })
DeleteManyByToken(ss, token) == {s \in ss : s.token # token}

\* Mutant of DeleteById: the row is kept and detached from its user.
DeleteById_Soft(rows, id) ==
    {IF x.id = id THEN [x EXCEPT !.userId = 0] ELSE x : x \in rows}

\* prisma.session.delete({ where: { id } }) / generatedContent.delete
DeleteById(rows, id) == {x \in rows : x.id # id}

\* return NextResponse.json(..., { status }): the request is finished
Respond(rq, code) ==
    [IdleReq EXCEPT !.kind = rq.kind, !.pc = "done", !.cookie = rq.cookie,
                    !.status = code, !.auth = rq.auth, !.uid = rq.uid,
                    !.calls = rq.calls, !.out = rq.out, !.saved = rq.saved,
                    !.list = rq.list, !.setCookie = rq.setCookie,
                    !.target = rq.target, !.filter = rq.filter,
                    !.email = rq.email, !.pw = rq.pw]

\* Primary keys are cuids: fresh and unique.  The rows request r creates get
\* keys no other request and no initial row (keys 1 to 5) has.
ContentIdOf(r) == 3 * r + 3
UserIdOf(r) == 3 * r + 4
SessionIdOf(r) == 3 * r + 5

\* ---------------------------------------------------------------------- Init
\* A store the program reaches by two registrations and one generation: user 1
\* has not generated yet, user 2 has used the attempt and owns one record.
\* Both hold the session their registration created at time 0.
InitUsers ==
    { [id |-> 1, email |-> "a@x", password |-> <<"bcrypt", "pw1">>,
       attemptUsed |-> FALSE],
      [id |-> 2, email |-> "b@x", password |-> <<"bcrypt", "pw2">>,
       attemptUsed |-> TRUE] }

InitSessions ==
    { [id |-> 3, userId |-> 1, token |-> "tA", expiresAt |-> ExpiresAtFrom(0)],
      [id |-> 4, userId |-> 2, token |-> "tB", expiresAt |-> ExpiresAtFrom(0)] }

InitContents ==
    { [id |-> 5, title |-> <<"T">>, content |-> <<"#", " ", "T", NL, "b">>,
       contentType |-> "blog", template |-> "Custom", prompt |-> <<"custom">>,
       userId |-> 2, createdAt |-> 0] }

Init ==
    /\ users = InitUsers
    /\ sessions = InitSessions
    /\ contents = InitContents
    /\ now = 0
    /\ req = [r \in Reqs |-> IdleReq]

\* ------------------------------------------------------------------- clock
\* Time passes: the clock moves to a later instant.
Tick ==
    /\ \E t \in Times : t > now /\ now' = t
    /\ UNCHANGED <<users, sessions, contents, req>>

\* ----------------------------------------------------------- request arrival
\* Request r has not arrived and every request before it has: requests are
\* numbered by arrival.
Arrives(r) ==
    /\ req[r].pc = "idle"
    /\ IF r = 1 THEN TRUE ELSE req[r - 1].pc # "idle"

\* ------------------------------------------------- getCurrentUser (auth.ts)
\* What the handler does once getCurrentUser returned a user.
Authenticated(rq) ==
    CASE rq.kind = "generate" ->
           IF QuotaUsed(rq.user) THEN Respond(rq, 403)
           ELSE [rq EXCEPT !.pc = "parse"]
      [] rq.kind = "historyGet" -> [rq EXCEPT !.pc = "list"]
      [] OTHER -> [rq EXCEPT !.pc = "find"]

\* Mutant of Resolve: a valid resolve renews the session's expiry.
Resolve_Sliding(r) ==
    /\ Arrives(r)
    /\ \E k \in Protected, c \in CookiesOf(r) :
         LET rq == [req[r] EXCEPT !.kind = k, !.cookie = c]
             s  == FindSessionByToken(c)
         IN  /\ req' = [req EXCEPT ![r] =
                  IF c = NoCookie
                  THEN Respond([rq EXCEPT !.auth = "nocookie"], 401)
                  ELSE IF s = NoSession
                  THEN Respond([rq EXCEPT !.auth = "norow"], 401)
                  ELSE IF SessionExpired(s, now)
                  THEN [rq EXCEPT !.auth = "expired", !.sess = s,
                                  !.pc = "expire"]
                  ELSE Authenticated([rq EXCEPT !.auth = "ok", !.sess = s,
                                         !.uid = s.userId,
                                         !.user = FindUserById(s.userId)])]
             /\ sessions' =
                  IF s # NoSession /\ ~SessionExpired(s, now)
                  THEN {IF x.id = s.id
                        THEN [x EXCEPT !.expiresAt = ExpiresAtFrom(now)]
                        ELSE x : x \in sessions}
                  ELSE sessions
    /\ UNCHANGED <<users, contents, now>>

\* A protected request arrives with the cookie the client chose to send:
\* cookies().get(...), then getSessionUser up to and including the test of
\* session.expiresAt.
Resolve(r) ==
    /\ Arrives(r)
    /\ \E k \in Protected, c \in CookiesOf(r) :
         LET rq == [req[r] EXCEPT !.kind = k, !.cookie = c]
             s  == FindSessionByToken(c)
         IN  req' = [req EXCEPT ![r] =
               IF c = NoCookie
               THEN Respond([rq EXCEPT !.auth = "nocookie"], 401)
               ELSE IF s = NoSession
               THEN Respond([rq EXCEPT !.auth = "norow"], 401)
               ELSE IF SessionExpired(s, now)
               THEN [rq EXCEPT !.auth = "expired", !.sess = s, !.pc = "expire"]
               ELSE Authenticated([rq EXCEPT !.auth = "ok", !.sess = s,
                                      !.uid = s.userId,
                                      !.user = FindUserById(s.userId)])]
    /\ UNCHANGED <<users, sessions, contents, now>>

\* await prisma.session.delete({ where: { id: session.id } }); return null.
\* Prisma's delete rejects (P2025) when no row has the id; the handler's catch
\* turns that into a 500.
ExpireSession(r) ==
    /\ req[r].pc = "expire"
    /\ IF \E s \in sessions : s.id = req[r].sess.id
       THEN /\ sessions' = DeleteById(sessions, req[r].sess.id)
            /\ req' = [req EXCEPT ![r] = Respond(@, 401)]
       ELSE /\ sessions' = sessions
            /\ req' = [req EXCEPT ![r] = Respond(@, 500)]
    /\ UNCHANGED <<users, contents, now>>

\* ------------------------------------------------------ POST /api/generate
\* What the client may send as the JSON body.
PlaceholderNames == {"topic", "product/service", "audience"}

\* inputs is absent, or an object; a key it lacks reads as "" below.
InputSets ==
    { [present |-> FALSE, map |-> [x \in PlaceholderNames |-> ""]],
      [present |-> TRUE, map |-> [x \in PlaceholderNames |-> ""]],
      [present |-> TRUE, map |-> [x \in PlaceholderNames |-> "v"]] }

Bodies ==
    [templateId : {"", "blog-how-to", "no-such-template"},
     inputs : InputSets,
     customPrompt : {"", "custom"}]

\* What the provider may answer: it rejects (error or timeout) or completes
\* with a text.
ProviderTexts ==
    { <<>>, <<"#", " ", "T", NL, "b">> }

\* Mutant of GenParse: the provider is called before the request is validated.
GenParse_CallsFirst(r) ==
    /\ req[r].pc = "parse"
    /\ \E b \in Bodies, apiKey \in BOOLEAN :
         LET t  == getTemplateById(b.templateId)
             rq == [req[r] EXCEPT !.calls = 1]
         IN  req' = [req EXCEPT ![r] =
               IF ~apiKey THEN Respond(rq, 500)
               ELSE IF b.templateId # ""
               THEN IF t = NoTemplate THEN Respond(rq, 404)
                    ELSE IF ~b.inputs.present
                    THEN Respond([rq EXCEPT !.out = "threw"], 500)
                    ELSE [rq EXCEPT
                            !.prompt = Substitute(t.prompt, t.placeholders,
                                                  b.inputs.map),
                            !.template = t.name,
                            !.ctype = t.contentType,
                            !.pc = "provider"]
               ELSE IF b.customPrompt # ""
               THEN [rq EXCEPT !.prompt = <<b.customPrompt>>,
                               !.template = "Custom", !.ctype = "blog",
                               !.pc = "provider"]
               ELSE Respond(rq, 400)]
    /\ UNCHANGED <<users, sessions, contents, now>>

\* request.json() to the call of the provider: validation and prompt
\* resolution.  apiKey is whether process.env.OPENAI_API_KEY is configured
\* when the request reads it.  Reading a placeholder of absent inputs throws
\* a TypeError, which the handler's catch reports as 500.
GenParse(r) ==
    /\ req[r].pc = "parse"
    /\ \E b \in Bodies, apiKey \in BOOLEAN :
         LET t  == getTemplateById(b.templateId)
             rq == req[r]
         IN  req' = [req EXCEPT ![r] =
               IF ~apiKey THEN Respond(rq, 500)
               ELSE IF b.templateId # ""
               THEN IF t = NoTemplate THEN Respond(rq, 404)
                    ELSE IF ~b.inputs.present
                    THEN Respond([rq EXCEPT !.out = "threw"], 500)
                    ELSE [rq EXCEPT
                            !.prompt = Substitute(t.prompt, t.placeholders,
                                                  b.inputs.map),
                            !.template = t.name,
                            !.ctype = t.contentType,
                            !.pc = "provider"]
               ELSE IF b.customPrompt # ""
               THEN [rq EXCEPT !.prompt = <<b.customPrompt>>,
                               !.template = "Custom", !.ctype = "blog",
                               !.pc = "provider"]
               ELSE Respond(rq, 400)]
    /\ UNCHANGED <<users, sessions, contents, now>>

\* Mutant of GenProviderWith: a call that failed is made once more.
GenProviderWith_RetryOnce(r, texts) ==
    /\ req[r].pc = "provider"
    /\ \E ok \in BOOLEAN, text \in texts :
         LET rq == [req[r] EXCEPT
                      !.calls = @ + 1,
                      !.out = IF ~ok THEN "error"
                              ELSE IF text = <<>> THEN "empty" ELSE "text"]
         IN  req' = [req EXCEPT ![r] =
               IF ~ok THEN (IF rq.calls < 2 THEN rq ELSE Respond(rq, 500))
               ELSE IF EmptyOutput(text) THEN Respond(rq, 500)
               ELSE [rq EXCEPT !.text = text, !.title = ExtractTitle(text),
                               !.pc = "create"]]
    /\ UNCHANGED <<users, sessions, contents, now>>

\* await openai.chat.completions.create(...), the test of the output and the
\* title extraction; texts is what the provider may complete with.
GenProviderWith(r, texts) ==
    /\ req[r].pc = "provider"
    /\ \E ok \in BOOLEAN, text \in texts :
         LET rq == [req[r] EXCEPT
                      !.calls = @ + 1,
                      !.out = IF ~ok THEN "error"
                              ELSE IF text = <<>> THEN "empty" ELSE "text"]
         IN  req' = [req EXCEPT ![r] =
               IF ~ok THEN Respond(rq, 500)
               ELSE IF EmptyOutput(text) THEN Respond(rq, 500)
               ELSE [rq EXCEPT !.text = text, !.title = ExtractTitle(text),
                               !.pc = "create"]]
    /\ UNCHANGED <<users, sessions, contents, now>>

GenProvider(r) == GenProviderWith(r, ProviderTexts)

\* Mutant of GenCreate: the row is stored for a user the request names.
GenCreate_AnyOwner(r) ==
    /\ req[r].pc = "create"
    /\ \E owner \in users : contents' = contents \cup
         { [id |-> ContentIdOf(r), title |-> req[r].title, content |-> req[r].text,
            contentType |-> req[r].ctype, template |-> req[r].template,
            prompt |-> req[r].prompt, userId |-> owner.id,
            createdAt |-> now] }
    /\ req' = [req EXCEPT ![r] =
                 [@ EXCEPT !.saved = ContentIdOf(r), !.prompt = <<>>,
                           !.template = "", !.ctype = "", !.text = <<>>,
                           !.title = <<>>, !.pc = "update"]]
    /\ UNCHANGED <<users, sessions, now>>

\* await prisma.generatedContent.create({ data: {...} })
GenCreate(r) ==
    /\ req[r].pc = "create"
    /\ contents' = contents \cup
         { [id |-> ContentIdOf(r), title |-> req[r].title, content |-> req[r].text,
            contentType |-> req[r].ctype, template |-> req[r].template,
            prompt |-> req[r].prompt, userId |-> req[r].user.id,
            createdAt |-> now] }
    /\ req' = [req EXCEPT ![r] =
                 [@ EXCEPT !.saved = ContentIdOf(r), !.prompt = <<>>,
                           !.template = "", !.ctype = "", !.text = <<>>,
                           !.title = <<>>, !.pc = "update"]]
    /\ UNCHANGED <<users, sessions, now>>

\* await prisma.user.update(...); return NextResponse.json({...})
GenUpdate(r) ==
    /\ req[r].pc = "update"
    /\ users' = MarkAttemptUsed(users, req[r].user.id)
    /\ req' = [req EXCEPT ![r] = Respond(@, 200)]
    /\ UNCHANGED <<sessions, contents, now>>

\* ------------------------------------------------------- GET /api/history
\* orderBy: { createdAt: 'desc' }
NewestFirst(q) == \A i \in 1 .. (Len(q) - 1) : q[i].createdAt >= q[i + 1].createdAt

RECURSIVE Listings(_)
\* Every sequence that lists the rows of S once each, newest first: the
\* order among rows of equal createdAt is the database's choice.
Listings(S) ==
    IF S = {} THEN {<<>>}
    ELSE LET stamps == {x.createdAt : x \in S}
             latest == CHOOSE t \in stamps : \A u \in stamps : t >= u
             newest == {x \in S : x.createdAt = latest}
         IN  UNION {{<<x>> \o q : q \in Listings(S \ {x})} : x \in newest}

TypeFilters == {"", "all", "blog", "marketing"}

\* Mutant of Matches: the listing is not restricted to the caller's rows.
Matches_AnyUser(c, uid, filter) ==
    (filter # "" /\ filter # "all") => c.contentType = filter

\* where: userId, and contentType unless the filter is absent or 'all'
Matches(c, uid, filter) ==
    /\ c.userId = uid
    /\ (filter # "" /\ filter # "all") => c.contentType = filter

\* prisma.generatedContent.findMany({ where, orderBy, take: 50 }); filters is
\* what the type parameter may be.
HistListWith(r, filters) ==
    /\ req[r].pc = "list"
    /\ \E f \in filters :
         \E q \in Listings({c \in contents : Matches(c, req[r].user.id, f)}) :
            req' = [req EXCEPT ![r] =
                      Respond([@ EXCEPT !.filter = f,
                                        !.list = Substring0(q, TakeLimit)],
                              200)]
    /\ UNCHANGED <<users, sessions, contents, now>>

\* The stores below hold rows of one content type: no type parameter, or one
\* that no row has.
HistList(r) == HistListWith(r, {"", "marketing"})

\* ---------------------------------------------------- DELETE /api/history
\* an id no record ever has
MissingId == 3 * MaxReq + 6

\* Mutant of NotOwner: the ownership test is left out.
NotOwner_Never(content, user) == FALSE

\* if (content.userId !== user.id)
NotOwner(content, user) == content.userId # user.id

\* searchParams.get('id'), findUnique and the ownership test
HistFind(r) ==
    /\ req[r].pc = "find"
    /\ \E id \in {c.id : c \in contents} \cup {0, MissingId} :
         LET c  == FindContentById(id)
             rq == [req[r] EXCEPT !.target = id]
         IN  req' = [req EXCEPT ![r] =
               IF id = 0 THEN Respond(rq, 400)
               ELSE IF c = NoContent THEN Respond(rq, 404)
               ELSE IF NotOwner(c, rq.user) THEN Respond(rq, 403)
               ELSE [rq EXCEPT !.pc = "delete"]]
    /\ UNCHANGED <<users, sessions, contents, now>>

\* Mutant of HistDelete: deleting the record gives the attempt back.
HistDelete_Refund(r) ==
    /\ req[r].pc = "delete"
    /\ IF \E c \in contents : c.id = req[r].target
       THEN /\ contents' = DeleteById(contents, req[r].target)
            /\ users' = {IF u.id = req[r].uid
                         THEN [u EXCEPT !.attemptUsed = FALSE] ELSE u :
                         u \in users}
            /\ req' = [req EXCEPT ![r] = Respond(@, 200)]
       ELSE /\ contents' = contents
            /\ users' = users
            /\ req' = [req EXCEPT ![r] = Respond(@, 500)]
    /\ UNCHANGED <<sessions, now>>

\* Mutant of HistDelete: the rejection is not caught and no response is sent.
HistDelete_NoCatch(r) ==
    /\ req[r].pc = "delete"
    /\ \E c \in contents : c.id = req[r].target
    /\ contents' = DeleteById(contents, req[r].target)
    /\ req' = [req EXCEPT ![r] = Respond(@, 200)]
    /\ UNCHANGED <<users, sessions, now>>

\* await prisma.generatedContent.delete({ where: { id } }): rejects (P2025)
\* when the row is gone, which the catch reports as 500.
HistDelete(r) ==
    /\ req[r].pc = "delete"
    /\ IF \E c \in contents : c.id = req[r].target
       THEN /\ contents' = DeleteById(contents, req[r].target)
            /\ req' = [req EXCEPT ![r] = Respond(@, 200)]
       ELSE /\ contents' = contents
            /\ req' = [req EXCEPT ![r] = Respond(@, 500)]
    /\ UNCHANGED <<users, sessions, now>>

\* ----------------------------------------------------- POST /api/auth/logout
\* Mutant of Logout: the cookie is cleared and the Session row is kept.
Logout_CookieOnly(r) ==
    /\ Arrives(r)
    /\ \E c \in CookiesOf(r) :
         req' = [req EXCEPT ![r] =
                   Respond([@ EXCEPT !.kind = "logout", !.cookie = c,
                                     !.setCookie = "cleared"], 200)]
    /\ UNCHANGED <<users, sessions, contents, now>>

\* Mutant of Logout: a request that names no stored session is refused.
Logout_RequiresSession(r) ==
    /\ Arrives(r)
    /\ \E c \in CookiesOf(r) :
         IF \E s \in sessions : s.token = c
         THEN /\ sessions' = DeleteManyByToken(sessions, c)
              /\ req' = [req EXCEPT ![r] =
                           Respond([@ EXCEPT !.kind = "logout", !.cookie = c,
                                             !.setCookie = "cleared"], 200)]
         ELSE /\ sessions' = sessions
              /\ req' = [req EXCEPT ![r] =
                           Respond([@ EXCEPT !.kind = "logout", !.cookie = c],
                                   401)]
    /\ UNCHANGED <<users, contents, now>>

\* if (token) await deleteSession(token); await clearSessionCookie()
Logout(r) ==
    /\ Arrives(r)
    /\ \E c \in CookiesOf(r) :
         /\ sessions' = IF c # NoCookie THEN DeleteManyByToken(sessions, c)
                        ELSE sessions
         /\ req' = [req EXCEPT ![r] =
                      Respond([@ EXCEPT !.kind = "logout", !.cookie = c,
                                        !.setCookie = "cleared"], 200)]
    /\ UNCHANGED <<users, contents, now>>

\* ------------------------------------------- POST /api/auth/register, login
\* Mutant of verifyPassword: every password is accepted.
verifyPassword_Always(pw, hashed) == TRUE

\* bcrypt.hash / bcrypt.compare
hashPassword(pw) == <<"bcrypt", pw>>
verifyPassword(pw, hashed) == hashed = hashPassword(pw)

\* Mutant of EmailTaken: the User table has no unique index on email.
EmailTaken_Never(us, e) == FALSE

\* CREATE UNIQUE INDEX "User_email_key" ON "User"("email")
EmailTaken(us, e) == \E u \in us : u.email = e

\* Registration: DuplicateEmail when the email is taken, else a new user
\* with attemptUsed = false (the column's default).
Register(r) ==
    /\ Arrives(r)
    /\ \E e \in Emails, pw \in Passwords :
         IF EmailTaken(users, e)
         THEN /\ req' = [req EXCEPT ![r] =
                           Respond([@ EXCEPT !.kind = "register",
                                             !.email = e], 409)]
              /\ UNCHANGED users
         ELSE LET u == [id |-> UserIdOf(r), email |-> e,
                        password |-> hashPassword(pw), attemptUsed |-> FALSE]
              IN  /\ users' = users \cup {u}
                  /\ req' = [req EXCEPT ![r] =
                               [@ EXCEPT !.kind = "register", !.email = e,
                                         !.pw = pw, !.user = u,
                                         !.uid = u.id, !.pc = "session"]]
    /\ UNCHANGED <<sessions, contents, now>>

\* Login: InvalidCredentials on an unknown email or a hash mismatch.
Login(r) ==
    /\ Arrives(r)
    /\ \E e \in Emails, pw \in Passwords :
         LET rq == [req[r] EXCEPT !.kind = "login", !.email = e, !.pw = pw]
             u  == IF \E x \in users : x.email = e
                   THEN CHOOSE x \in users : x.email = e
                   ELSE NoUser
         IN  req' = [req EXCEPT ![r] =
               IF u # NoUser /\ verifyPassword(pw, u.password)
               THEN [rq EXCEPT !.user = u, !.uid = u.id, !.pc = "session"]
               ELSE Respond(rq, 401)]
    /\ UNCHANGED <<users, sessions, contents, now>>

\* createSession(userId), then setSessionCookie(token)
CreateSession(r) ==
    /\ req[r].pc = "session"
    /\ LET s == [id |-> SessionIdOf(r), userId |-> req[r].user.id,
                 token |-> TokenOf(r), expiresAt |-> ExpiresAtFrom(now)]
       IN  /\ sessions' = sessions \cup {s}
           /\ req' = [req EXCEPT ![r] =
                        Respond([@ EXCEPT !.setCookie = s.token], 200)]
    /\ UNCHANGED <<users, contents, now>>

\* ---------------------------------------------------------------------- Next
Next ==
    \/ Tick
    \/ \E r \in Reqs : Resolve(r)
    \/ \E r \in Reqs : ExpireSession(r)
    \/ \E r \in Reqs : GenParse(r)
    \/ \E r \in Reqs : GenProvider(r)
    \/ \E r \in Reqs : GenCreate(r)
    \/ \E r \in Reqs : GenUpdate(r)
    \/ \E r \in Reqs : HistList(r)
    \/ \E r \in Reqs : HistFind(r)
    \/ \E r \in Reqs : HistDelete(r)
    \/ \E r \in Reqs : Logout(r)
    \/ \E r \in Reqs : Register(r)
    \/ \E r \in Reqs : Login(r)
    \/ \E r \in Reqs : CreateSession(r)

Spec == Init /\ [][Next]_vars

\* ------------------------------------------- listing over a larger history
\* More rows of one user than one listing returns.  The quota gate is a read
\* followed later by a write, so generate requests of one user that pass the
\* test together each store a row; the rows below are what such bursts of
\* user 2 and of user 1 leave.  Rows 2 and 3 of user 2 share their createdAt.
ManyRows == TakeLimit + 2

HistoryRow(i, uid, type, t) ==
    [id |-> 100 + i, title |-> <<"T">>, content |-> <<"T">>,
     contentType |-> type, template |-> "Custom", prompt |-> <<"custom">>,
     userId |-> uid, createdAt |-> t]

LargeContents ==
    {HistoryRow(i, 2, IF i % 10 = 0 THEN "marketing" ELSE "blog",
                IF i = 2 THEN 3 ELSE i) : i \in 1 .. ManyRows}
    \cup {HistoryRow(ManyRows + 1, 1, "blog", 10),
          HistoryRow(ManyRows + 2, 1, "marketing", 20)}

InitHistory ==
    /\ users = MarkAttemptUsed(InitUsers, 1)
    /\ sessions = InitSessions
    /\ contents \in {InitContents, LargeContents}
    /\ now = SESSION_DURATION
    /\ req = [r \in Reqs |-> IdleReq]

NextHistory ==
    \/ \E r \in Reqs : Resolve(r)
    \/ \E r \in Reqs : HistListWith(r, TypeFilters)

SpecHistory == InitHistory /\ [][NextHistory]_vars

\* ------------------------------------------- generation over more texts
\* Texts the provider may complete with: empty, blank lines only, a first
\* line that is only a heading marker, a heading, a blank first line, and a
\* line longer than a title.
LongLine == [i \in 1 .. (TitleMax + 1) |-> "a"]

TitleTexts ==
    { <<>>, <<NL>>, <<" ", NL, " ">>, <<"#", NL, "b">>,
      <<"#", " ", "T", NL, "b">>, <<NL, "T", NL, "b">>, LongLine }

NextTitle ==
    \/ \E r \in Reqs : Resolve(r)
    \/ \E r \in Reqs : GenParse(r)
    \/ \E r \in Reqs : GenProviderWith(r, TitleTexts)
    \/ \E r \in Reqs : GenCreate(r)
    \/ \E r \in Reqs : GenUpdate(r)

SpecTitle == Init /\ [][NextTitle]_vars

\* ------------------------------------------------- requests under fairness
\* The protected routes and logout, started before or after the initial
\* sessions expire.
\* A handler that has been entered runs on: each awaited call returns or
\* rejects, and the provider call returns, fails or times out.
InitLive ==
    /\ users = InitUsers
    /\ sessions = InitSessions
    /\ contents = InitContents
    /\ now \in {0, SESSION_DURATION + 1}
    /\ req = [r \in Reqs |-> IdleReq]

\* the step of request r after an awaited call has settled
Continue(r) ==
    \/ ExpireSession(r)
    \/ GenParse(r)
    \/ GenProvider(r)
    \/ GenCreate(r)
    \/ GenUpdate(r)
    \/ HistList(r)
    \/ HistFind(r)
    \/ HistDelete(r)

NextLive ==
    \/ \E r \in Reqs : Resolve(r)
    \/ \E r \in Reqs : Logout(r)
    \/ \E r \in Reqs : Continue(r)

SpecLive ==
    InitLive /\ [][NextLive]_vars /\ \A r \in Reqs : WF_vars(Continue(r))

\* ============================================================== properties
Done(r) == req[r].pc = "done"
UserIds == {u.id : u \in users}
AttemptUsedOf(u) == FindUserById(u).attemptUsed
\* the generate requests that acted for user u
GenerateBy(u) == {r \in Reqs : req[r].kind = "generate" /\ req[r].uid = u}
\* request r takes its first step, as a request of a protected route
ResolveStep(r) == req[r].pc = "idle" /\ req'[r].kind \in Protected

\* C1: among the generate requests of one user whose provider call succeeded,
\* exactly one is answered 200 and stores a row; every other is answered 403
\* and stores nothing.
C1_ExactlyOneSucceeds ==
    \A u \in UserIds :
        /\ Cardinality({r \in GenerateBy(u) : req[r].status = 200}) <= 1
        /\ Cardinality({r \in GenerateBy(u) : req[r].saved # 0}) <= 1
        /\ \A r \in GenerateBy(u) :
              (Done(r) /\ req[r].out = "text") => req[r].status \in {200, 403}

\* C2: a GeneratedContent row is in the store only while its user's
\* attemptUsed is true.
C2_RowOnlyWithFlag == \A c \in contents : AttemptUsedOf(c.userId)

\* C3: a generate request that resolves to a user whose attemptUsed is true is
\* answered 403 at once, has called the provider zero times and has changed
\* neither the User nor the GeneratedContent table.
C3_QuotaRejectsBeforeProvider ==
    [][\A r \in Reqs :
          (/\ ResolveStep(r)
           /\ req'[r].kind = "generate"
           /\ req'[r].auth = "ok"
           /\ AttemptUsedOf(req'[r].uid))
          => (/\ req'[r].pc = "done"
              /\ req'[r].status = 403
              /\ req'[r].calls = 0
              /\ users' = users
              /\ contents' = contents)]_vars

C3_Witness ==
    \E r \in Reqs :
        /\ req[r].kind = "generate" /\ req[r].auth = "ok"
        /\ req[r].status = 403 /\ req[r].calls = 0

\* C4: no step takes a user's attemptUsed from true to false or removes the
\* user, and a step that takes it from false to true is the user.update of a
\* generate request of that user that has stored its row and answers 200.
C4_AttemptUsedOneWay ==
    [][/\ \A u \in users :
             u.attemptUsed => \E v \in users' : v.id = u.id /\ v.attemptUsed
       /\ \A v \in users' :
             (v.attemptUsed /\ ~(\E u \in users : u.id = v.id /\ u.attemptUsed))
             => \E r \in Reqs :
                   /\ req[r].kind = "generate" /\ req[r].pc = "update"
                   /\ req[r].uid = v.id /\ req[r].saved # 0
                   /\ req'[r].status = 200]_vars

\* User 1 generated, then deleted the record, and the flag is still set.
C4_Witness ==
    /\ AttemptUsedOf(1)
    /\ \E r \in GenerateBy(1) : req[r].status = 200
    /\ \E r \in Reqs :
          /\ req[r].kind = "historyDelete" /\ req[r].uid = 1
          /\ req[r].status = 200
    /\ ~(\E c \in contents : c.userId = 1)

\* C5: when the provider rejects (error, timeout) or answers with empty
\* output, the request ends with 500 in that step, has stored no row, and the
\* User, GeneratedContent and Session tables are as they were.
C5_ProviderFailureLeavesState ==
    [][\A r \in Reqs :
          (req[r].pc = "provider" /\ req'[r].out \in {"error", "empty"})
          => (/\ req'[r].pc = "done"
              /\ req'[r].status = 500
              /\ req'[r].saved = 0
              /\ users' = users
              /\ contents' = contents
              /\ sessions' = sessions)]_vars

\* One request failed on a provider error, another on empty output, and the
\* user they acted for can still generate.
C5_Witness ==
    \E r1, r2 \in Reqs :
        /\ req[r1].out = "error" /\ req[r1].status = 500
        /\ req[r2].out = "empty" /\ req[r2].status = 500
        /\ ~AttemptUsedOf(req[r1].uid)
        /\ ~AttemptUsedOf(req[r2].uid)

\* C6: getSessionUser has three outcomes: no row, none; an expired row, the
\* row is deleted and none; otherwise the row's user.  getCurrentUser
\* returning none is the handler answering 401.
C6_ThreeOutcomes ==
    \A r \in Reqs :
        (Done(r) /\ req[r].kind \in Protected)
        => /\ req[r].auth \in {"nocookie", "norow", "expired", "ok"}
           /\ req[r].auth = "norow" => req[r].status = 401
           /\ req[r].auth = "expired" => req[r].status = 401
           /\ req[r].auth = "ok" => (req[r].uid \in UserIds /\ req[r].status # 401)

\* C7: a session made at t has expiresAt = t + SESSION_DURATION; a resolve at
\* a time up to expiresAt yields its user; a resolve after it finds it
\* expired, deletes the row and returns none; only logout with its token
\* removes a session that has not expired.
C7_SevenDayWindow ==
    [][/\ \A s \in sessions' \ sessions : s.expiresAt = now + SESSION_DURATION
       /\ \A s \in sessions \ sessions' :
             now <= s.expiresAt
             => \E r \in Reqs : /\ req[r].pc = "idle"
                                /\ req'[r].kind = "logout"
                                /\ req'[r].cookie = s.token
       /\ \A r \in Reqs :
             /\ (ResolveStep(r) /\ FindSessionByToken(req'[r].cookie) # NoSession)
                => LET s == FindSessionByToken(req'[r].cookie)
                   IN  IF now <= s.expiresAt
                       THEN req'[r].auth = "ok" /\ req'[r].uid = s.userId
                       ELSE req'[r].auth = "expired" /\ req'[r].pc = "expire"
             /\ req[r].pc = "expire"
                => (req'[r].pc = "expire"
                    \/ (/\ req'[r].status = 401
                        /\ ~(\E s \in sessions' : s.id = req[r].sess.id)))]_vars

\* C8: a protected request with no cookie, with a token that has no Session
\* row, or with an expired token is answered 401, without a provider call and
\* without a stored row.
C8_UnauthenticatedIs401 ==
    \A r \in Reqs :
        (/\ Done(r)
         /\ req[r].kind \in Protected
         /\ (req[r].cookie = NoCookie \/ req[r].auth \in {"norow", "expired"}))
        => (req[r].status = 401 /\ req[r].calls = 0 /\ req[r].saved = 0)

\* whether user u had used the attempt before the first request
InitiallyUsed(u) == \E x \in InitUsers : x.id = u /\ x.attemptUsed

\* C9: once every request has been answered, the answers and the store are
\* those of a run of the generate requests one at a time under a per-user
\* lock: per user at most one 200, as many rows stored as 200 answers, and the
\* flag set exactly when it was set before or one request was answered 200.
C9_SerialOutcome ==
    (\A r \in Reqs : req[r].pc \in {"idle", "done"})
    => \A u \in UserIds :
          LET ok   == {r \in GenerateBy(u) : req[r].status = 200}
              made == {r \in GenerateBy(u) : req[r].saved # 0}
          IN  /\ Cardinality(ok) <= 1
              /\ made = ok
              /\ AttemptUsedOf(u) <=> (InitiallyUsed(u) \/ ok # {})

\* C10: deleteSession(token), as logout calls it, completes normally, leaves
\* no Session row with the token and every other row as it was; on a token
\* with no row it changes nothing, and so does a further call.
C10_DeleteSessionIdempotent ==
    [][\A r \in Reqs :
          (/\ req[r].pc = "idle" /\ req'[r].kind = "logout"
           /\ req'[r].cookie # NoCookie)
          => (/\ req'[r].status = 200
              /\ ~(\E s \in sessions' : s.token = req'[r].cookie)
              /\ sessions' = {s \in sessions : s.token # req'[r].cookie}
              /\ (~(\E s \in sessions : s.token = req'[r].cookie)
                    => sessions' = sessions)
              /\ DeleteManyByToken(sessions', req'[r].cookie) = sessions')]_vars

\* Two logouts with the token of a session that existed at the start.
C10_Witness ==
    \E r1, r2 \in Reqs :
        /\ r1 # r2
        /\ req[r1].kind = "logout" /\ req[r1].cookie = "tA" /\ Done(r1)
        /\ req[r2].kind = "logout" /\ req[r2].cookie = "tA" /\ Done(r2)
        /\ ~(\E s \in sessions : s.token = "tA")

\* request r takes its only step, as a logout
LogoutStep(r) == req[r].pc = "idle" /\ req'[r].kind = "logout"

\* C11: a logout is answered 200 and clears the session cookie, whether or
\* not it carried a cookie and whether or not a Session row had its token;
\* without a cookie or without such a row it leaves every table as it was, so
\* a second logout answers the same and changes nothing.
C11_LogoutAlwaysSucceeds ==
    [][\A r \in Reqs :
          LogoutStep(r)
          => (/\ req'[r].status = 200
              /\ req'[r].setCookie = "cleared"
              /\ users' = users /\ contents' = contents
              /\ ~(\E s \in sessions : s.token = req'[r].cookie)
                    => sessions' = sessions)]_vars

\* A logout that carried no cookie and one whose token never had a row.
C11_Witness ==
    \E r1, r2 \in Reqs :
        /\ req[r1].kind = "logout" /\ req[r1].cookie = NoCookie /\ Done(r1)
        /\ req[r2].kind = "logout" /\ req[r2].cookie = TokenOf(r2) /\ Done(r2)
        /\ req[r1].status = 200 /\ req[r2].status = 200
        /\ sessions = InitSessions

\* C12: a DELETE of a record by a user who does not own it is answered 403
\* and removes nothing; a GeneratedContent row leaves the table only in the
\* delete step of a DELETE request authenticated as the row's owner.
C12_OnlyOwnerDeletes ==
    [][/\ \A c \in contents :
             ~(\E d \in contents' : d.id = c.id)
             => \E r \in Reqs : /\ req[r].kind = "historyDelete"
                                /\ req[r].pc = "delete"
                                /\ req[r].auth = "ok"
                                /\ req[r].uid = c.userId
                                /\ req[r].target = c.id
                                /\ req'[r].status = 200
       /\ \A r \in Reqs :
             (/\ req[r].pc = "find" /\ req'[r].pc # "find"
              /\ FindContentById(req'[r].target) # NoContent
              /\ FindContentById(req'[r].target).userId # req[r].uid)
             => (/\ req'[r].pc = "done" /\ req'[r].status = 403
                 /\ contents' = contents)]_vars

\* A DELETE by another user was answered 403 and the record is still stored.
C12_Witness ==
    \E r \in Reqs :
        /\ req[r].kind = "historyDelete" /\ Done(r) /\ req[r].status = 403
        /\ FindContentById(req[r].target) # NoContent
        /\ FindContentById(req[r].target).userId # req[r].uid

\* the authenticated DELETE requests that named record id and are answered
DeletesOf(id) ==
    {r \in Reqs : /\ req[r].kind = "historyDelete" /\ Done(r)
                  /\ req[r].auth = "ok" /\ req[r].target = id}

\* C13: an authenticated DELETE that names a record is answered 200, 403 or
\* 404; among the DELETE requests for one record at most one is answered 200
\* and, once one is, every other by the same user is answered 404.
C13_DeleteOutcomes ==
    \A id \in {req[r].target : r \in Reqs} \ {0} :
        /\ \A r \in DeletesOf(id) : req[r].status \in {200, 403, 404}
        /\ Cardinality({r \in DeletesOf(id) : req[r].status = 200}) <= 1
        /\ \A r1, r2 \in DeletesOf(id) :
              (r1 # r2 /\ req[r1].status = 200 /\ req[r2].uid = req[r1].uid)
              => req[r2].status = 404

\* the rows a listing for user uid with type parameter f is taken from, when
\* the parameter values of noFilter stand for no filter
Selected(uid, f, noFilter) ==
    {c \in contents : c.userId = uid /\ (f \in noFilter \/ c.contentType = f)}

\* the listing q is the first TakeLimit rows of S, newest first
FirstNewest(q, S) ==
    /\ Len(q) = IF Cardinality(S) < TakeLimit THEN Cardinality(S) ELSE TakeLimit
    /\ \A i \in 1 .. Len(q) : q[i] \in S
    /\ \A i, j \in 1 .. Len(q) : q[i] = q[j] => i = j
    /\ NewestFirst(q)
    /\ \A c \in S : (\A i \in 1 .. Len(q) : q[i] # c)
                     => \A i \in 1 .. Len(q) : q[i].createdAt >= c.createdAt

\* request r is answered by the listing step
ListStep(r) == req[r].pc = "list" /\ req'[r].pc = "done"

\* C14 as stated: GET /history?type=T by user u returns the first 50, newest
\* first, of the rows of u whose contentType is T, or of all rows of u when T
\* is absent.
C14_ListingAsStated ==
    [][\A r \in Reqs :
          ListStep(r)
          => (/\ req'[r].status = 200
              /\ FirstNewest(req'[r].list,
                             Selected(req[r].uid, req'[r].filter, {""})))]_vars

\* C14 amended: the type parameter 'all' stands for no filter as well.  GET
\* /history?type=T by user u returns the first 50, newest first, of the rows
\* of u whose contentType is T, or of all rows of u when T is absent or
\* 'all'; never a row of another user, never more than 50.
C14_Listing ==
    [][\A r \in Reqs :
          ListStep(r)
          => (/\ req'[r].status = 200
              /\ FirstNewest(req'[r].list,
                             Selected(req[r].uid, req'[r].filter, {"", "all"}))
              /\ Len(req'[r].list) <= TakeLimit
              /\ \A i \in 1 .. Len(req'[r].list) :
                    req'[r].list[i].userId = req[r].uid)]_vars

\* A listing with type 'all' that returned 50 rows of a user who has more.
C14_Witness ==
    \E r \in Reqs :
        /\ req[r].kind = "historyGet" /\ Done(r) /\ req[r].status = 200
        /\ req[r].filter = "all"
        /\ Len(req[r].list) = TakeLimit
        /\ Cardinality({c \in contents : c.userId = req[r].uid}) > TakeLimit

\* C15: a user may hold several sessions.  A step that adds a Session row
\* leaves every existing row as it was; a Session row is never altered, and it
\* leaves the table only by a logout that carried its token or by the lazy
\* expiry of that very row; every row that stays still names a stored user.
C15_SessionsIndependent ==
    [][/\ (sessions' \ sessions # {}) => sessions \subseteq sessions'
       /\ \A s \in sessions :
             \/ /\ s \in sessions'
                /\ \E u \in users' : u.id = s.userId
             \/ /\ ~(\E t \in sessions' : t.id = s.id)
                /\ \E r \in Reqs :
                      \/ LogoutStep(r) /\ req'[r].cookie = s.token
                      \/ /\ req[r].pc = "expire" /\ req[r].sess.id = s.id
                         /\ SessionExpired(s, now)]_vars

\* User 1 logged in again and holds two sessions, and the logout of user 2's
\* token removed that row only.
C15_Witness ==
    \E r1, r2 \in Reqs :
        /\ req[r1].kind = "login" /\ Done(r1) /\ req[r1].status = 200
        /\ req[r1].uid = 1
        /\ \E s \in sessions : s.token = req[r1].setCookie /\ s.userId = 1
        /\ \E s \in sessions : s.token = "tA" /\ s.userId = 1
        /\ req[r1].setCookie # "tA"
        /\ req[r2].kind = "logout" /\ Done(r2) /\ req[r2].cookie = "tB"
        /\ ~(\E s \in sessions : s.token = "tB")

\* the users whose email is e and whose stored hash was made from pw
Holders(e, pw) == {u \in users : u.email = e /\ u.password = hashPassword(pw)}

UniqueEmails(us) == \A u1, u2 \in us : u1.email = u2.email => u1 = u2

\* request r takes its first step, as a registration
RegisterStep(r) == req[r].pc = "idle" /\ req'[r].kind = "register"

\* C17: a registration with an email that a User row has is answered 409 and
\* leaves the User and Session tables as they were; no two User rows ever
\* have the same email, whatever the order of the registrations.
C17_DuplicateEmailRejected ==
    [][/\ UniqueEmails(users) /\ UniqueEmails(users')
       /\ \A r \in Reqs :
             RegisterStep(r)
             => /\ (\E u \in users : u.email = req'[r].email)
                      => (req'[r].pc = "done" /\ req'[r].status = 409)
                /\ req'[r].status = 409
                      => (users' = users /\ sessions' = sessions)]_vars

\* Two registrations with the same new email: one stored the user, the other
\* was answered 409, and one row has the email.
C17_Witness ==
    \E r1, r2 \in Reqs :
        /\ req[r1].kind = "register" /\ req[r1].uid # 0
        /\ req[r2].kind = "register" /\ Done(r2) /\ req[r2].status = 409
        /\ req[r2].email = req[r1].email
        /\ Cardinality({u \in users : u.email = req[r1].email}) = 1

\* C18: a GeneratedContent row keeps every field it was stored with; the
\* only step that affects a stored row is the delete step of a DELETE request
\* that named it, which removes it.
C18_RowsImmutable ==
    [][\A c \in contents :
          \/ c \in contents'
          \/ /\ ~(\E d \in contents' : d.id = c.id)
             /\ \E r \in Reqs : /\ req[r].kind = "historyDelete"
                                /\ req[r].pc = "delete"
                                /\ req[r].target = c.id]_vars

\* The row a generate request stored is still there as stored after another
\* row was deleted.
C18_Witness ==
    \E r1, r2 \in Reqs :
        /\ req[r1].kind = "generate" /\ Done(r1) /\ req[r1].status = 200
        /\ \E c \in contents : c.id = req[r1].saved /\ c.userId = req[r1].uid
        /\ req[r2].kind = "historyDelete" /\ Done(r2) /\ req[r2].status = 200
        /\ FindContentById(req[r2].target) = NoContent

\* C19: no exception escapes the session operations: a protected request
\* that found an expired session is answered by its handler (401), never by
\* the handler's catch (500), and a logout is always answered 200.
C19_NoExceptionEscapes ==
    \A r \in Reqs :
        Done(r)
        => /\ ~(/\ req[r].kind \in Protected /\ req[r].auth = "expired"
                /\ req[r].status = 500)
           /\ req[r].kind = "logout" => req[r].status = 200

\* C20: resolving a token that has no Session row, or no cookie at all, and
\* deleteSession on such a token leave the Session, User and GeneratedContent
\* tables as they were.
C20_MissChangesNothing ==
    [][\A r \in Reqs :
          /\ (ResolveStep(r) /\ req'[r].auth \in {"nocookie", "norow"})
             => UNCHANGED <<sessions, users, contents>>
          /\ (ResolveStep(r) /\ ~(\E s \in sessions : s.token = req'[r].cookie))
             => (/\ req'[r].auth \in {"nocookie", "norow"}
                 /\ req'[r].status = 401)
          /\ (LogoutStep(r) /\ ~(\E s \in sessions : s.token = req'[r].cookie))
             => UNCHANGED <<sessions, users, contents>>]_vars

\* A protected request and a logout that both carried a token without a row,
\* with every table as at the start.
C20_Witness ==
    \E r1, r2 \in Reqs :
        /\ req[r1].kind \in Protected /\ Done(r1) /\ req[r1].auth = "norow"
        /\ req[r2].kind = "logout" /\ Done(r2) /\ req[r2].cookie = TokenOf(r2)
        /\ sessions = InitSessions /\ users = InitUsers
        /\ contents = InitContents

\* the text has a line that is not blank
HasContent(text) == \E i \in 1 .. Len(text) : ~IsSpace(text[i])

\* C21: a text of the provider that is empty or has only blank lines makes
\* the request fail and stores nothing: every stored row holds a text with a
\* non-blank line, and its title is neither empty nor the generic title put
\* in place of a missing one.
C21_BlankTextFails ==
    \A c \in contents :
        /\ HasContent(c.content)
        /\ c.title # <<>>
        /\ c.title # GenericTitle

\* the first line of the text that is not blank
FirstLine(text) == SelectSeq(SplitLines(text), TrimNonEmpty)[1]

\* C22: the title of every stored row whose text has a non-blank line is the
\* first non-blank line, without its leading heading marker, cut to its
\* first 100 characters; no stored title is longer than 100.
C22_TitleIsFirstLine ==
    \A c \in contents :
        /\ Len(c.title) <= TitleMax
        /\ HasContent(c.content)
           => c.title = Substring0(StripHeading(FirstLine(c.content)), TitleMax)

\* C23: a generate request that names a known template is never rejected
\* because a substitution value is missing: no request ends in the TypeError
\* that reading a placeholder of absent inputs throws.
C23_MissingValueNoError ==
    \A r \in Reqs :
        (Done(r) /\ req[r].kind = "generate") => req[r].out # "threw"

C25_EveryRequestAnswered ==
    /\ <>[](\A r \in Reqs : req[r].pc \in {"idle", "done"})
    /\ [][\A r \in Reqs : Done(r) => req'[r] = req[r]]_vars

\* A generate request that called the provider and a DELETE that reached its
\* delete step have both been answered.
C25_Witness ==
    \E r1, r2 \in Reqs :
        /\ req[r1].kind = "generate" /\ Done(r1) /\ req[r1].calls = 1
        /\ req[r2].kind = "historyDelete" /\ Done(r2) /\ req[r2].status = 200

\* the Session table ss has a row with token t
Stored(ss, t) == \E s \in ss : s.token = t

\* C26: revocation is permanent.  A logout that carried token t and the
\* lazy expiry of t's row leave no row with t; a token without a row gets
\* one only by the session step of a request that is given that token; and a
\* protected request that carries a token without a row is answered 401 as
\* unauthenticated and acts for no user.
C26_RevocationPermanent ==
    [][/\ \A s \in sessions' \ sessions :
             \E q \in Reqs : req[q].pc = "session" /\ req'[q].setCookie = s.token
       /\ \A r \in Reqs :
             /\ (LogoutStep(r) /\ req'[r].cookie # NoCookie)
                => ~Stored(sessions', req'[r].cookie)
             /\ (req[r].pc = "expire" /\ req'[r].status = 401)
                => ~Stored(sessions', req[r].sess.token)
             /\ (ResolveStep(r) /\ ~Stored(sessions, req'[r].cookie))
                => (/\ req'[r].pc = "done" /\ req'[r].status = 401
                    /\ req'[r].uid = 0 /\ req'[r].calls = 0)]_vars

\* Token tA was logged out and a protected request that carried it afterwards
\* found no row and was answered 401.
C26_Witness ==
    \E r1, r2 \in Reqs :
        /\ req[r1].kind = "logout" /\ req[r1].cookie = "tA" /\ Done(r1)
        /\ req[r2].kind \in Protected /\ req[r2].cookie = "tA" /\ Done(r2)
        /\ req[r2].auth = "norow" /\ req[r2].status = 401

\* C27: resolving a session that is stored and not expired writes nothing to
\* the Session, User and GeneratedContent tables; no step changes the
\* expiresAt, or any other field, of a Session row that stays stored.
C27_ValidResolveReadOnly ==
    [][/\ \A r \in Reqs :
             (ResolveStep(r) /\ req'[r].auth = "ok")
             => UNCHANGED <<sessions, users, contents>>
       /\ \A s \in sessions : \A t \in sessions' : t.id = s.id => t = s]_vars

\* A request was authenticated with token tA, and at the last instant of
\* tA's validity the row still expires when it was created to.
C27_Witness ==
    \E r \in Reqs :
        /\ req[r].kind \in Protected /\ Done(r) /\ req[r].auth = "ok"
        /\ req[r].cookie = "tA"
        /\ now = SESSION_DURATION
        /\ FindSessionByToken("tA").expiresAt = ExpiresAtFrom(0)

\* C28: a generate request that ends in validation (unknown template 404,
\* neither template nor prompt 400, API key not configured 500) has called
\* the provider zero times, and its last step leaves the tables as they were:
\* no row is created and no attemptUsed changes.
C28_ValidationBeforeProvider ==
    [][\A r \in Reqs :
          (req[r].pc = "parse" /\ req'[r].pc = "done")
          => (/\ req'[r].status \in {400, 404, 500}
              /\ req'[r].calls = 0 /\ req'[r].saved = 0
              /\ req'[r].out \in {"none", "threw"}
              /\ UNCHANGED <<users, sessions, contents>>
              /\ ~(\E c \in contents' : c.id = ContentIdOf(r)))]_vars

\* One generate request was refused in validation with 400 or 404, another
\* with the 500 of the missing API key; neither called the provider.
C28_Witness ==
    \E r1, r2 \in Reqs :
        /\ req[r1].kind = "generate" /\ Done(r1) /\ req[r1].status \in {400, 404}
        /\ req[r2].kind = "generate" /\ Done(r2) /\ req[r2].status = 500
        /\ req[r2].auth = "ok" /\ req[r2].out = "none"
        /\ req[r1].calls = 0 /\ req[r2].calls = 0

\* the rows of user u that were stored before the first request
InitialRows(u) == {c \in InitContents : c.userId = u}

\* C29: ownership is fixed at creation.  The row a generate request stored
\* has the id of the user the request's session resolved to, and every record
\* a listing returned to a user is a row that one of this user's own generate
\* requests stored.
C29_OwnershipFixed ==
    /\ \A r \in Reqs : \A c \in contents :
          c.id = ContentIdOf(r)
          => (/\ req[r].kind = "generate" /\ req[r].auth = "ok"
              /\ c.userId = req[r].uid)
    /\ \A r \in Reqs :
          (req[r].kind = "historyGet" /\ Done(r))
          => \A i \in 1 .. Len(req[r].list) :
                LET c == req[r].list[i]
                IN  /\ c.userId = req[r].uid
                    /\ \/ c \in InitialRows(req[r].uid)
                       \/ \E q \in GenerateBy(req[r].uid) :
                             c.id = ContentIdOf(q) /\ req[q].auth = "ok"

\* User 1 generated a record and a listing for user 1 returned it.
C29_Witness ==
    \E r1, r2 \in Reqs :
        /\ req[r1].kind = "generate" /\ req[r1].saved # 0 /\ req[r1].uid = 1
        /\ req[r2].kind = "historyGet" /\ Done(r2) /\ req[r2].uid = 1
        /\ \E i \in 1 .. Len(req[r2].list) : req[r2].list[i].id = req[r1].saved

====
